---- MODULE Spec2Model ----
(***************************************************************************)
(* Archival queue engine of zipiq-backend: ArweaveService in               *)
(* src/services/arweave.js.  One Node.js process; every action below is    *)
(* one run-to-completion piece of JavaScript between two suspension points *)
(* (an await, a setTimeout, a setInterval tick).                           *)
(*                                                                         *)
(* Time is counted in seconds by per-timer countdowns.  A delay of at most *)
(* Horizon seconds is counted exactly and its timer fires when it is due.  *)
(* Of a longer delay d only the first Horizon seconds are counted: its     *)
(* timer fires at some time not earlier than Horizon seconds after it was  *)
(* set.  Every timing of the program is therefore a timing of the model.   *)
(***************************************************************************)
EXTENDS Integers, Sequences, FiniteSets, TLC

\* ---- bounds of the model -------------------------------------------------
MaxCalls == 2          \* queueForArchival calls made by the environment
MaxChunk == 1          \* chunk indexes are 0..MaxChunk
Horizon == 3           \* seconds of a countdown that are followed exactly

Streams == {"s1", "s2"}
Chunks == 0..MaxChunk

\* ---- program constants (seconds) ----------------------------------------
MaxAttempts == 3       \* `item.attempts < 3`
RetryBase == 5         \* `* 5000` ms
IntervalDelay == 30    \* setInterval(..., 30000)
SleepDelay == 2        \* this.sleep(2000)
StatusOk == 200        \* response.status === 200
StatusRejected == 400  \* a status other than 200

VARIABLES
  uploadQueue,     \* this.uploadQueue: sequence of queue items
  isProcessing,    \* this.isProcessing
  wallet,          \* this.wallet: FALSE is null, TRUE is a generated key
  walletPc,        \* position of initializeWallet: "generating" | "done"
  archivedItems,   \* this.archivedItems: a Map, kept in insertion order
  loops,           \* active processQueue activations
  timers,          \* pending retry setTimeout callbacks
  interval,        \* seconds until the next setInterval tick
  accepted,        \* history: (streamId, chunkIndex) of the calls that returned true
  ledger,          \* history: transactions the ledger answered with 200
  done,            \* history: items whose uploadToArweave returned
  dropped,         \* history: items given up ("Max retries exceeded")
  sinceEnd,        \* history: seconds since the last attempt ended (capped)
  gap,             \* history: value of sinceEnd when the last attempt began
  health,          \* healthCheck: position of the running call, results of the finished ones
  mockStorage,     \* MockIPFSService.mockStorage: Map hash -> blob, in insertion order
  chunkStore,      \* MockIPFSService.chunkStore: Map `${streamId}_${chunkIndex}` -> chunkData
  streamStore,     \* MockIPFSService.streamStore: Map streamId -> stream metadata
  now,             \* the clock read by Date.now() and new Date()
  ipfsConnected,   \* IPFSService.connected
  storeCalls,      \* history: number of content store calls made
  puts,            \* history: (bytes, hash returned) of every store of bytes
  last,            \* history: the last content store call and its result
  rooms,           \* server.js rooms: Map roomId -> Set of peerIds
  peers,           \* server.js peers: Map socket.id -> {roomId, peerId}
  sockets          \* socket.id -> "none" | "connected" | "closed"

vars == <<uploadQueue, isProcessing, wallet, walletPc, archivedItems, loops,
          timers, interval, accepted, ledger, done, dropped, sinceEnd, gap, health,
          mockStorage, chunkStore, streamStore, now, ipfsConnected, storeCalls, puts, last,
          rooms, peers, sockets>>

\* the state of the signalling server
signalVars == <<rooms, peers, sockets>>

\* the state of the content store and the history of its calls
storeVars == <<mockStorage, chunkStore, streamStore, now, ipfsConnected, storeCalls, puts, last>>

Undefined == <<>>

Min(a, b) == IF a < b THEN a ELSE b

RemoveAt(s, i) == SubSeq(s, 1, i - 1) \o SubSeq(s, i + 1, Len(s))

\* `${data.streamId}_${data.chunkIndex}`: chunkIndex is an integer, its decimal
\* form holds no "_", so the last "_" splits the string back into the pair.
ItemIdStreamOnly(streamId, chunkIndex) == <<streamId>>

ItemId(streamId, chunkIndex) == <<streamId, "_", chunkIndex>>

\* queueItem built by queueForArchival.  oid is the identity of the JavaScript
\* object (the number of the call that built it); starts is a history field,
\* the number of uploadToArweave calls made for the object.
NewQueueItem(oid, streamId, chunkIndex) ==
  [oid |-> oid,
   id |-> ItemId(streamId, chunkIndex),
   metadata |-> [streamId |-> streamId, chunkIndex |-> chunkIndex],
   attempts |-> 0,
   transactionId |-> Undefined,
   starts |-> 0]

\* transaction.id after sign: the hash of a fresh randomized signature over
\* data and tags (Upload-Date among them); a new value at every call.
TransactionId(item) == <<item.oid, item.starts>>

\* Math.pow(2, item.attempts) * 5000, in seconds
RetryDelay(attempts) == (2 ^ attempts) * RetryBase

ShouldRetryOffByOne(attempts) == attempts <= MaxAttempts

\* if (item.attempts < 3)
ShouldRetry(attempts) == attempts < MaxAttempts

PostAcceptedAny(status) == status >= StatusOk

\* if (response.status === 200)
PostAccepted(status) == status = StatusOk

SleepAfterSuccessOnly(outcome) == IF outcome = "failed" THEN 0 ELSE SleepDelay

\* await this.sleep(2000) after the try/catch, whatever the outcome
SleepAfter(outcome) == SleepDelay

\* the part of a delay of d seconds that is counted down
Countdown(d) == Min(d, Horizon)

\* a timer set for d seconds that has `remaining` left must fire now
Urgent(d, remaining) == remaining = 0 /\ d <= Horizon

Elapse(remaining) == IF remaining > 0 THEN remaining - 1 ELSE 0

\* Map.prototype.set on an insertion-ordered Map
MapSet(m, key, value) ==
  IF \E i \in 1..Len(m) : m[i].key = key
    THEN [i \in 1..Len(m) |-> IF m[i].key = key THEN [key |-> key, value |-> value] ELSE m[i]]
    ELSE Append(m, [key |-> key, value |-> value])

\* transactions.sort((a, b) => a.chunkIndex - b.chunkIndex): a stable sort
RECURSIVE SortByChunkIndex(_)
SortByChunkIndex(s) ==
  IF Len(s) = 0 THEN <<>>
  ELSE LET x == s[Len(s)]
           t == SortByChunkIndex(SubSeq(s, 1, Len(s) - 1))
           k == Cardinality({i \in 1..Len(t) : t[i].chunkIndex <= x.chunkIndex})
       IN SubSeq(t, 1, k) \o <<x>> \o SubSeq(t, k + 1, Len(t))

\* the loop of getStreamStatus over archivedItems.entries()
MatchingTransactions(m, streamId) ==
  LET matches == SelectSeq(m, LAMBDA e : e.value.metadata.streamId = streamId) IN
  [i \in 1..Len(matches) |-> [id |-> matches[i].value.transactionId,
                             chunkIndex |-> matches[i].value.metadata.chunkIndex]]

GetStreamStatusUnsorted(m, streamId) ==
  LET transactions == MatchingTransactions(m, streamId) IN
  [streamId |-> streamId,
   archivedCount |-> Len(transactions),
   transactions |-> transactions]

\* getStreamStatus(streamId) on the Map m
GetStreamStatus(m, streamId) ==
  LET transactions == MatchingTransactions(m, streamId) IN
  [streamId |-> streamId,
   archivedCount |-> Len(transactions),
   transactions |-> SortByChunkIndex(transactions)]

\* getQueueStats().pending.count
PendingCount == Len(uploadQueue)

TypeOK ==
  /\ isProcessing \in BOOLEAN
  /\ wallet \in BOOLEAN
  /\ walletPc \in {"generating", "done"}
  /\ interval \in 0..IntervalDelay
  /\ Len(accepted) \in 0..MaxCalls
  /\ sinceEnd \in 0..SleepDelay
  /\ gap \in 0..SleepDelay
  /\ health.pc \in {"idle", "info", "address", "balance"}

\* the constructor: empty queue, no wallet yet, initializeWallet suspended in
\* generate(), the interval timer armed
ArchivalInit ==
  /\ uploadQueue = <<>>
  /\ isProcessing = FALSE
  /\ wallet = FALSE
  /\ walletPc = "generating"
  /\ archivedItems = <<>>
  /\ loops = <<>>
  /\ timers = <<>>
  /\ interval = Countdown(IntervalDelay)
  /\ accepted = <<>>
  /\ ledger = {}
  /\ done = <<>>
  /\ dropped = <<>>
  /\ sinceEnd = SleepDelay
  /\ gap = SleepDelay
  /\ health = [pc |-> "idle", results |-> <<>>]

\* the constructors of MockIPFSService and IPFSService: empty maps; `connected`
\* tells whether IPFSService got its client
ContentInit(connected) ==
  /\ mockStorage = <<>>
  /\ chunkStore = <<>>
  /\ streamStore = <<>>
  /\ now = 0
  /\ ipfsConnected = connected
  /\ storeCalls = 0
  /\ puts = <<>>
  /\ last = [op |-> "none"]

MaxSockets == 3        \* connections made to the signalling server

SocketIds == 1..MaxSockets
RoomIds == {"r1", "r2"}
PeerIds == {"p1", "p2"}

\* server.js at start: const rooms = new Map(); const peers = new Map(); no
\* socket has connected
SignalInit ==
  /\ rooms = <<>>
  /\ peers = <<>>
  /\ sockets = [s \in SocketIds |-> "none"]

Init == ArchivalInit /\ ContentInit(TRUE) /\ SignalInit

\* ---- the drain loop -----------------------------------------------------

\* the activation of processQueue suspended in `await this.sleep(2000)`
Sleeping(outcome) ==
  [pc |-> "sleep", item |-> Undefined, sleep |-> SleepAfter(outcome)]

FailedAttemptUncounted(item) == item

\* item.attempts++ in the catch block
FailedAttempt(item) == [item EXCEPT !.attempts = @ + 1]

CatchFailureEscapes(item, cause, others) ==
  LET it == FailedAttempt(item) IN
  /\ IF ShouldRetry(it.attempts)
       THEN /\ timers' = Append(timers, [item |-> it, cause |-> cause,
                                         delay |-> RetryDelay(it.attempts),
                                         remaining |-> Countdown(RetryDelay(it.attempts))])
            /\ dropped' = dropped
       ELSE /\ dropped' = Append(dropped, [item |-> it, cause |-> cause])
            /\ timers' = timers
  /\ loops' = others
  /\ sinceEnd' = 0

\* catch block of processQueue, then the sleep that follows the try/catch.
\* `cause` is what was thrown; `others` are the other activations.
CatchFailure(item, cause, others) ==
  LET it == FailedAttempt(item) IN
  /\ IF ShouldRetry(it.attempts)
       THEN /\ timers' = Append(timers, [item |-> it, cause |-> cause,
                                         delay |-> RetryDelay(it.attempts),
                                         remaining |-> Countdown(RetryDelay(it.attempts))])
            /\ dropped' = dropped
       ELSE /\ dropped' = Append(dropped, [item |-> it, cause |-> cause])
            /\ timers' = timers
  /\ loops' = Append(others, Sleeping("failed"))
  /\ sinceEnd' = 0

WalletMissingIgnored(w) == FALSE

\* if (!this.wallet) throw new Error('Arweave wallet not initialized')
WalletMissing(w) == ~w

\* const item = this.uploadQueue.shift(); await this.uploadToArweave(item):
\* runs up to the first await of uploadToArweave (or its throw on a null wallet,
\* whose catch runs in the same macrotask).  `q` is the queue before the shift.
ShiftAndUpload(q, others) ==
  LET item == [Head(q) EXCEPT !.starts = @ + 1] IN
  /\ uploadQueue' = Tail(q)
  /\ gap' = sinceEnd
  /\ IF ~WalletMissing(wallet)
       THEN /\ loops' = Append(others, [pc |-> "create", item |-> item, sleep |-> 0])
            /\ UNCHANGED <<timers, dropped, sinceEnd>>
       ELSE CatchFailure(item, "no wallet", others)

\* if (this.isProcessing || this.uploadQueue.length === 0) return;
ProcessQueueReturns(processing, q) == processing \/ Len(q) = 0

ProcessQueueNoFlag(q) ==
  IF ProcessQueueReturns(isProcessing, q)
    THEN /\ uploadQueue' = q
         /\ UNCHANGED <<isProcessing, loops, timers, dropped, sinceEnd, gap>>
    ELSE /\ isProcessing' = isProcessing
         /\ ShiftAndUpload(q, loops)

\* processQueue() called with the queue holding q
ProcessQueue(q) ==
  IF ProcessQueueReturns(isProcessing, q)
    THEN /\ uploadQueue' = q
         /\ UNCHANGED <<isProcessing, loops, timers, dropped, sinceEnd, gap>>
    ELSE /\ isProcessing' = TRUE
         /\ ShiftAndUpload(q, loops)

\* what queueForArchival({streamId, chunkIndex, ...}) does to the service
QueueForArchivalSteps(streamId, chunkIndex) ==
  LET queueItem == NewQueueItem(Len(accepted) + 1, streamId, chunkIndex)
      q == Append(uploadQueue, queueItem) IN
  /\ Len(accepted) < MaxCalls
  /\ accepted' = Append(accepted, queueItem.metadata)
  /\ IF ~isProcessing
       THEN ProcessQueue(q)
       ELSE /\ uploadQueue' = q
            /\ UNCHANGED <<isProcessing, loops, timers, dropped, sinceEnd, gap>>
  /\ UNCHANGED <<wallet, walletPc, archivedItems, interval, ledger, done>>

\* queueForArchival({streamId, chunkIndex, ...})
QueueForArchival(streamId, chunkIndex) ==
  /\ QueueForArchivalSteps(streamId, chunkIndex)
  /\ UNCHANGED <<health, signalVars, storeVars>>

IntervalFireIdle ==
  /\ interval = 0
  /\ interval' = Countdown(IntervalDelay)
  /\ UNCHANGED <<uploadQueue, isProcessing, loops, timers, dropped, sinceEnd, gap>>
  /\ UNCHANGED <<wallet, walletPc, health, signalVars, storeVars, archivedItems, accepted, ledger, done>>

\* the setInterval callback of startQueueProcessor
IntervalFire ==
  /\ interval = 0
  /\ interval' = Countdown(IntervalDelay)
  /\ IF ~isProcessing /\ Len(uploadQueue) > 0
       THEN ProcessQueue(uploadQueue)
       ELSE UNCHANGED <<uploadQueue, isProcessing, loops, timers, dropped, sinceEnd, gap>>
  /\ UNCHANGED <<wallet, walletPc, health, signalVars, storeVars, archivedItems, accepted, ledger, done>>

RetryTimerFireLost(i) ==
  /\ timers[i].remaining = 0
  /\ timers' = RemoveAt(timers, i)
  /\ UNCHANGED <<uploadQueue, isProcessing, wallet, walletPc, health, signalVars, storeVars, archivedItems, loops, interval,
                 accepted, ledger, done, dropped, sinceEnd, gap>>

\* the setTimeout callback of the catch block: this.uploadQueue.push(item)
RetryTimerFire(i) ==
  /\ timers[i].remaining = 0
  /\ uploadQueue' = Append(uploadQueue, timers[i].item)
  /\ timers' = RemoveAt(timers, i)
  /\ UNCHANGED <<isProcessing, wallet, walletPc, health, signalVars, storeVars, archivedItems, loops, interval,
                 accepted, ledger, done, dropped, sinceEnd, gap>>

\* an awaited ledger call of uploadToArweave throws: rethrown to processQueue
LedgerThrows(i) ==
  /\ loops[i].pc \in {"create", "sign", "post", "status"}
  /\ CatchFailure(loops[i].item, "error", RemoveAt(loops, i))
  /\ UNCHANGED <<uploadQueue, isProcessing, wallet, walletPc, health, signalVars, storeVars, archivedItems, interval,
                 accepted, ledger, done, gap>>

\* the JavaScript value undefined where a streamId is expected: the template
\* literal of the item id renders it as the text "undefined"
NoStreamId == "undefined"

\* the JavaScript value undefined where a chunkIndex is expected (no chunk has
\* a negative index)
NoChunkIndex == 0 - 1

\* item.metadata.chunkIndex.toString() among the addTag calls: a TypeError
\* when chunkIndex is undefined
AddTagsThrows(item) == item.metadata.chunkIndex = NoChunkIndex

\* await this.arweave.createTransaction(...) returns, the tags are added
CreateReturns(i) ==
  /\ loops[i].pc = "create"
  /\ IF AddTagsThrows(loops[i].item)
       THEN CatchFailure(loops[i].item, "error", RemoveAt(loops, i))
       ELSE /\ loops' = [loops EXCEPT ![i].pc = "sign"]
            /\ UNCHANGED <<timers, dropped, sinceEnd>>
  /\ UNCHANGED <<uploadQueue, isProcessing, wallet, walletPc, health, signalVars, storeVars, archivedItems,
                 interval, accepted, ledger, done, gap>>

\* await this.arweave.transactions.sign(...) returns: transaction.id is set
SignReturns(i) ==
  /\ loops[i].pc = "sign"
  /\ loops' = [loops EXCEPT ![i].pc = "post"]
  /\ UNCHANGED <<uploadQueue, isProcessing, wallet, walletPc, health, signalVars, storeVars, archivedItems, timers,
                 interval, accepted, ledger, done, dropped, sinceEnd, gap>>

\* await this.arweave.transactions.post(transaction) answers with `status`
PostReturns(i, status) ==
  LET item == loops[i].item IN
  /\ loops[i].pc = "post"
  /\ ledger' = IF status = StatusOk
                 THEN ledger \cup {[tx |-> TransactionId(item), id |-> item.id]}
                 ELSE ledger
  /\ IF PostAccepted(status)
       THEN /\ loops' = [loops EXCEPT ![i].pc = "status",
                                      ![i].item.transactionId = TransactionId(item)]
            /\ UNCHANGED <<timers, dropped, sinceEnd>>
       ELSE CatchFailure(item, "rejected", RemoveAt(loops, i))
  /\ UNCHANGED <<uploadQueue, isProcessing, wallet, walletPc, health, signalVars, storeVars, archivedItems, interval,
                 accepted, done, gap>>

\* await this.arweave.transactions.getStatus(transaction.id) returns:
\* uploadToArweave returns, processQueue records the item and goes to sleep
StatusReturns(i) ==
  LET item == loops[i].item IN
  /\ loops[i].pc = "status"
  /\ archivedItems' = MapSet(archivedItems, item.id,
                             [transactionId |-> item.transactionId, metadata |-> item.metadata])
  /\ done' = Append(done, item)
  /\ loops' = Append(RemoveAt(loops, i), Sleeping("archived"))
  /\ sinceEnd' = 0
  /\ UNCHANGED <<uploadQueue, isProcessing, wallet, walletPc, health, signalVars, storeVars, timers, interval,
                 accepted, ledger, dropped, gap>>

\* the sleep(2000) timer fires: the while condition is tested again
SleepDone(i) ==
  /\ loops[i].pc = "sleep"
  /\ loops[i].sleep = 0
  /\ IF Len(uploadQueue) > 0
       THEN /\ ShiftAndUpload(uploadQueue, RemoveAt(loops, i))
            /\ UNCHANGED isProcessing
       ELSE /\ isProcessing' = FALSE
            /\ loops' = RemoveAt(loops, i)
            /\ UNCHANGED <<uploadQueue, timers, dropped, sinceEnd, gap>>
  /\ UNCHANGED <<wallet, walletPc, health, signalVars, storeVars, archivedItems, interval, accepted, ledger, done>>

\* initializeWallet: await this.arweave.wallets.generate() returns
WalletGenerated ==
  /\ walletPc = "generating"
  /\ wallet' = TRUE
  /\ walletPc' = "done"
  /\ UNCHANGED <<uploadQueue, isProcessing, archivedItems, health, signalVars, storeVars, loops, timers, interval,
                 accepted, ledger, done, dropped, sinceEnd, gap>>

\* initializeWallet: generate() throws, the catch logs, this.wallet stays null
WalletGenerateThrows ==
  /\ walletPc = "generating"
  /\ walletPc' = "done"
  /\ UNCHANGED <<uploadQueue, isProcessing, wallet, archivedItems, health, signalVars, storeVars, loops, timers, interval,
                 accepted, ledger, done, dropped, sinceEnd, gap>>

\* one second passes; a timer that is due fires before time moves on
Tick ==
  /\ ~Urgent(IntervalDelay, interval)
  /\ \A i \in 1..Len(timers) : ~Urgent(timers[i].delay, timers[i].remaining)
  /\ \A i \in 1..Len(loops) : loops[i].pc = "sleep" => ~Urgent(SleepDelay, loops[i].sleep)
  /\ interval' = Elapse(interval)
  /\ timers' = [i \in 1..Len(timers) |-> [timers[i] EXCEPT !.remaining = Elapse(@)]]
  /\ loops' = [i \in 1..Len(loops) |->
                 IF loops[i].pc = "sleep" THEN [loops[i] EXCEPT !.sleep = Elapse(@)] ELSE loops[i]]
  /\ sinceEnd' = Min(sinceEnd + 1, SleepDelay)
  /\ UNCHANGED <<uploadQueue, isProcessing, wallet, walletPc, health, signalVars, storeVars, archivedItems,
                 accepted, ledger, done, dropped, gap>>

Enqueue == \E s \in Streams, c \in Chunks : QueueForArchival(s, c)
RetryFire == \E i \in 1..Len(timers) : RetryTimerFire(i)
LedgerFails == \E i \in 1..Len(loops) : LedgerThrows(i)
CreateDone == \E i \in 1..Len(loops) : CreateReturns(i)
SignDone == \E i \in 1..Len(loops) : SignReturns(i)
PostDone == \E i \in 1..Len(loops), status \in {StatusOk, StatusRejected} : PostReturns(i, status)
StatusDone == \E i \in 1..Len(loops) : StatusReturns(i)
SleepFire == \E i \in 1..Len(loops) : SleepDone(i)

Next ==
  \/ Enqueue
  \/ IntervalFire
  \/ RetryFire
  \/ LedgerFails
  \/ CreateDone
  \/ SignDone
  \/ PostDone
  \/ StatusDone
  \/ SleepFire
  \/ WalletGenerated
  \/ WalletGenerateThrows
  \/ Tick

Spec == Init /\ [][Next]_vars

\* every ledger call made by uploadToArweave returns or throws
LedgerAnswers == LedgerFails \/ CreateDone \/ SignDone \/ PostDone \/ StatusDone

\* time passes, due timers fire and ledger calls are answered
FairSpec ==
  /\ Spec
  /\ WF_vars(Tick)
  /\ WF_vars(IntervalFire)
  /\ WF_vars(RetryFire)
  /\ WF_vars(SleepFire)
  /\ WF_vars(LedgerAnswers)

\* ---- the claims -----------------------------------------------------------

Range(s) == {s[i] : i \in 1..Len(s)}

Count(s, x) == Cardinality({i \in 1..Len(s) : s[i] = x})

InFlight == {i \in 1..Len(loops) : loops[i].pc # "sleep"}

\* the item objects that are queued, in flight or held by a retry timer
LiveItems ==
  Range(uploadQueue) \cup {loops[i].item : i \in InFlight}
    \cup {timers[i].item : i \in 1..Len(timers)}

Inputs == [streamId : Streams, chunkIndex : Chunks]

\* C1: for every (streamId, chunkIndex) at most one item that has not been
\* given up was ever created by queueForArchival: a second call for an id that
\* is pending, in flight or archived adds nothing.
C1_IdempotentEnqueue ==
  \A m \in Inputs :
    Count(accepted, m) - Cardinality({i \in 1..Len(dropped) : dropped[i].item.metadata = m}) <= 1

\* C2: for every item id the ledger has accepted (answered 200 to) at most
\* one transaction.
C2_NoDuplicateArchival ==
  \A m \in Inputs :
    Cardinality({t \in ledger : t.id = ItemId(m.streamId, m.chunkIndex)}) <= 1

\* C3: no item is submitted more than 3 times; an item is given up only after
\* exactly 3 submissions that all failed; an item that failed 3 times is not
\* queued, in flight or in a retry timer again.
C3_RetryBound ==
  /\ \A it \in LiveItems : it.starts <= 3 /\ it.attempts < 3
  /\ \A i \in 1..Len(dropped) : dropped[i].item.starts = 3 /\ dropped[i].item.attempts = 3
  /\ \A i \in 1..Len(done) : done[i].starts <= 3

C3_Witness ==
  \E i \in 1..Len(dropped) : dropped[i].cause = "error" /\ dropped[i].item.starts = 3

\* C4: an item whose post was answered with a status other than 200 is never
\* handed to a retry timer.
C4_RejectedNotRetried ==
  \A i \in 1..Len(timers) : timers[i].cause # "rejected"

\* C5: whenever a submission attempt starts, at least 2 seconds have passed
\* since the end of the attempt before it, successful or failed.
C5_RateFloor == gap >= 2

C5_Witness ==
  /\ \E i \in InFlight : loops[i].item.starts >= 2
  /\ Len(done) >= 1
  /\ gap = 2

\* C6: at most one processQueue loop is active and at most one uploadToArweave
\* call is outstanding; isProcessing tells whether a loop is active.
C6_SingleWorker ==
  /\ Len(loops) <= 1
  /\ Cardinality(InFlight) <= 1
  /\ isProcessing <=> Len(loops) = 1

C6_Witness ==
  /\ InFlight # {}
  /\ Len(uploadQueue) >= 1
  /\ Len(accepted) >= 2

\* C7: every archived record carries the id of a transaction that the ledger
\* accepted for the record's item id.
C7_RecordOnlyAfterAccept ==
  \A i \in 1..Len(archivedItems) :
    [tx |-> archivedItems[i].value.transactionId, id |-> archivedItems[i].key] \in ledger

C7_Witness ==
  /\ Len(archivedItems) >= 1
  /\ \E i \in 1..Len(timers) : timers[i].cause = "rejected"

\* C10: for every stream, getStreamStatus returns exactly the archived records
\* of that stream, archivedCount is the number of transactions returned, and
\* the transactions are in ascending chunkIndex order.
C10_StreamStatus ==
  \A s \in Streams :
    LET r == GetStreamStatus(archivedItems, s)
        records == {i \in 1..Len(archivedItems) : archivedItems[i].value.metadata.streamId = s}
    IN /\ r.streamId = s
       /\ r.archivedCount = Len(r.transactions)
       /\ Len(r.transactions) = Cardinality(records)
       /\ Range(r.transactions) =
            {[id |-> archivedItems[i].value.transactionId,
              chunkIndex |-> archivedItems[i].value.metadata.chunkIndex] : i \in records}
       /\ \A i, j \in 1..Len(r.transactions) :
            i < j => r.transactions[i].chunkIndex <= r.transactions[j].chunkIndex

\* chunk 1 of a stream was archived before its chunk 0
C10_Witness ==
  \E s \in Streams :
    \E i, j \in 1..Len(archivedItems) :
      /\ i < j
      /\ archivedItems[i].value.metadata = [streamId |-> s, chunkIndex |-> 1]
      /\ archivedItems[j].value.metadata = [streamId |-> s, chunkIndex |-> 0]


\* the number of accepted items that have reached no terminal outcome
LiveCount == Len(uploadQueue) + Len(timers) + Cardinality(InFlight)

AllTerminal == LiveCount = 0 /\ Len(done) + Len(dropped) = Len(accepted)

\* C8: whenever some accepted item is queued, in flight or in a retry timer,
\* a later state has every accepted item archived or given up.
C8_EventuallyTerminal == (LiveCount > 0) ~> AllTerminal

\* an item was re-queued by its retry timer after the loop had ended, and was
\* taken up again and archived
C8_Witness ==
  /\ AllTerminal
  /\ \E i \in 1..Len(done) : done[i].attempts > 0
  /\ \E i \in 1..Len(dropped) : dropped[i].item.attempts = 3

\* chunks 0..n-1 of stream s, and nothing else, were enqueued and no item was
\* given up
ChunksEnqueued(s, n) ==
  /\ Range(accepted) = {[streamId |-> s, chunkIndex |-> c] : c \in 0..(n - 1)}
  /\ Len(dropped) = 0

\* getStreamStatus(s) lists n transactions for chunks 0..n-1 in order with
\* distinct ids, and nothing is pending
AllArchived(s, n) ==
  LET r == GetStreamStatus(archivedItems, s) IN
  /\ r.archivedCount = n
  /\ Len(r.transactions) = n
  /\ \A i \in 1..Len(r.transactions) : r.transactions[i].chunkIndex = i - 1
  /\ \A i, j \in 1..Len(r.transactions) : i # j => r.transactions[i].id # r.transactions[j].id
  /\ PendingCount = 0

\* C9: once chunks 0..n-1 of a stream are enqueued, then unless an item is
\* given up or something else is enqueued, getStreamStatus eventually reports
\* the n chunks in order with distinct transaction ids, and pending is 0.
C9_StreamEventuallyArchived ==
  (\E s \in Streams : \E n \in 1..(MaxChunk + 1) : ChunksEnqueued(s, n))
    ~> \/ \E s \in Streams : \E n \in 1..(MaxChunk + 1) :
            ChunksEnqueued(s, n) /\ AllArchived(s, n)
       \/ ~(\E s \in Streams : \E n \in 1..(MaxChunk + 1) : ChunksEnqueued(s, n))

C9_Witness ==
  \E s \in Streams :
    /\ ChunksEnqueued(s, 2)
    /\ AllArchived(s, 2)
    /\ \E i \in 1..Len(done) : done[i].attempts > 0

\* ---- failed items, retry delays, item fields --------------------------------

\* the item objects the program still refers to: queued, in flight, or held
\* by the closure of a retry timer
HeldOids == {it.oid : it \in LiveItems}

\* C11: an item that was given up after its last permitted attempt is still
\* held by the engine (it is not removed from the program's state).
C11_FailedRetained ==
  \A i \in 1..Len(dropped) : dropped[i].item.oid \in HeldOids

\* C12: the retry delays are 5 s, 10 s, 20 s: the retry after the k-th failed
\* attempt of an item is scheduled 5 * 2^(k-1) seconds later.
C12_RetryDelays ==
  \A i \in 1..Len(timers) :
    timers[i].delay = RetryBase * (2 ^ (timers[i].item.attempts - 1))

\* C13: once an archived record for an item id holds a transactionId, no step
\* changes the transactionId recorded for that id.
C13_TransactionIdImmutable ==
  [][\A i \in 1..Len(archivedItems) :
       \A j \in 1..Len(archivedItems') :
         archivedItems'[j].key = archivedItems[i].key
           => archivedItems'[j].value.transactionId = archivedItems[i].value.transactionId]_vars

\* C14: an item that is queued, in flight, held by a retry timer or given up
\* carries no transactionId.
C14_TransactionIdOnlyWhenArchived ==
  /\ \A it \in LiveItems : it.transactionId = Undefined
  /\ \A i \in 1..Len(dropped) : dropped[i].item.transactionId = Undefined

\* C15 as stated: attempts is the number of submission attempts made for the
\* item, successful or not (an attempt in flight is not yet counted).
C15_AttemptsCountsEveryAttempt ==
  /\ \A it \in Range(uploadQueue) \cup {timers[i].item : i \in 1..Len(timers)} :
       it.attempts = it.starts
  /\ \A i \in InFlight : loops[i].item.attempts = loops[i].item.starts - 1
  /\ \A i \in 1..Len(dropped) : dropped[i].item.attempts = dropped[i].item.starts
  /\ \A i \in 1..Len(done) : done[i].attempts = done[i].starts

\* C15 amended: attempts is the number of failed submission attempts made for
\* the item: 0 for a new item, one more after every attempt that failed, and
\* unchanged by the attempt that succeeds.
C15_AttemptsCountsFailures ==
  /\ \A it \in Range(uploadQueue) \cup {timers[i].item : i \in 1..Len(timers)} :
       it.attempts = it.starts
  /\ \A i \in InFlight : loops[i].item.attempts = loops[i].item.starts - 1
  /\ \A i \in 1..Len(dropped) : dropped[i].item.attempts = dropped[i].item.starts
  /\ \A i \in 1..Len(done) : done[i].attempts = done[i].starts - 1

\* an item was archived at its third attempt, after two failures
C15_Witness ==
  \E i \in 1..Len(done) : done[i].starts = 3 /\ done[i].attempts = 2

\* ---- restart of the process ---------------------------------------------------

\* the Node.js process ends and is started again: `new ArweaveService()` runs
\* the constructor on a fresh heap.  What the ledger and the callers have seen
\* (the history variables) is not undone.
Restart ==
  /\ uploadQueue' = <<>>
  /\ isProcessing' = FALSE
  /\ wallet' = FALSE
  /\ walletPc' = "generating"
  /\ archivedItems' = <<>>
  /\ loops' = <<>>
  /\ timers' = <<>>
  /\ interval' = Countdown(IntervalDelay)
  /\ UNCHANGED <<accepted, ledger, done, dropped, sinceEnd, gap, health, signalVars, storeVars>>

RestartNext == Next \/ Restart

\* the service in a process that may be restarted at any moment
RestartSpec == Init /\ [][RestartNext]_vars

\* C16: every accepted item that is not archived or given up is in the
\* backlog (queued, in flight or waiting for its retry), and every archived
\* record ever written is returned by getStreamStatus; also after a restart.
C16_DurableAcrossRestart ==
  /\ \A k \in 1..Len(accepted) :
       \/ k \in HeldOids
       \/ \E i \in 1..Len(done) : done[i].oid = k
       \/ \E i \in 1..Len(dropped) : dropped[i].item.oid = k
  /\ \A i \in 1..Len(done) :
       \E j \in 1..Len(GetStreamStatus(archivedItems, done[i].metadata.streamId).transactions) :
         GetStreamStatus(archivedItems, done[i].metadata.streamId).transactions[j].chunkIndex
           = done[i].metadata.chunkIndex

\* ---- calls with incomplete input ----------------------------------------------

\* size: data.data.length throws a TypeError when data.data is undefined
SizeThrows(payload) == ~payload

\* queueForArchival(data) where data.data is present or not and streamId and
\* chunkIndex may be undefined.  A throw inside the try is turned into a
\* rejection by the catch; nothing was pushed before it.
QueueForArchivalData(payload, streamId, chunkIndex) ==
  IF SizeThrows(payload)
    THEN UNCHANGED vars
    ELSE QueueForArchival(streamId, chunkIndex)

\* a call in which the payload, the streamId or the chunkIndex is missing
EnqueueIncomplete ==
  \E payload \in BOOLEAN, s \in Streams \cup {NoStreamId}, c \in Chunks \cup {NoChunkIndex} :
    /\ ~payload \/ s = NoStreamId \/ c = NoChunkIndex
    /\ QueueForArchivalData(payload, s, c)

IncompleteNext ==
  \/ EnqueueIncomplete
  \/ IntervalFire
  \/ RetryFire
  \/ LedgerFails
  \/ CreateDone
  \/ SignDone
  \/ PostDone
  \/ StatusDone
  \/ SleepFire
  \/ WalletGenerated
  \/ WalletGenerateThrows
  \/ Tick

\* the service with a caller that leaves out a field of the input in each call
IncompleteSpec == Init /\ [][IncompleteNext]_vars

\* C17: a call without payload, streamId or chunkIndex is refused before
\* anything is queued: no item whose id was built from a missing streamId or
\* chunkIndex is ever in the queue (or accepted at all).
C17_NoIncompleteItem ==
  /\ \A it \in LiveItems :
       it.metadata.streamId # NoStreamId /\ it.metadata.chunkIndex # NoChunkIndex
  /\ \A i \in 1..Len(accepted) :
       accepted[i].streamId # NoStreamId /\ accepted[i].chunkIndex # NoChunkIndex

\* ---- failures inside the drain loop -------------------------------------------

\* C18: a failure does not end the drain loop: whenever the loop is active
\* (whatever has failed in it), it goes on to the items that remain and a later
\* state has the queue drained and isProcessing false.
C18_LoopSurvivesFailure ==
  isProcessing ~> (~isProcessing /\ Len(loops) = 0 /\ Len(uploadQueue) = 0)

\* the first item was given up, the second one was then archived by the same
\* service and the worker is idle again
C18_Witness ==
  /\ ~isProcessing
  /\ Len(uploadQueue) = 0
  /\ \E i \in 1..Len(dropped) : dropped[i].item.oid = 1
  /\ \E i \in 1..Len(done) : done[i].oid = 2

\* ---- a ledger call that never answers -----------------------------------------

\* time passes and due timers fire, but a ledger call need not be answered:
\* uploadToArweave awaits createTransaction, sign, post and getStatus with no
\* timer of its own
HangSpec ==
  /\ Spec
  /\ WF_vars(Tick)
  /\ WF_vars(IntervalFire)
  /\ WF_vars(RetryFire)
  /\ WF_vars(SleepFire)

\* C19: a submission attempt does not stay outstanding for ever, also when the
\* ledger never answers: the attempt is ended and the loop is free for the
\* next item.
C19_HungCallEnds == (InFlight # {}) ~> (InFlight = {})

\* ---- healthCheck --------------------------------------------------------------

MaxHealthChecks == 1   \* healthCheck calls made by the environment
HealthCalls == 1       \* queueForArchival calls made while health is checked

\* the state of the archival queue engine and its history
serviceVars == <<uploadQueue, isProcessing, wallet, walletPc, archivedItems, loops,
                 timers, interval, accepted, ledger, done, dropped, sinceEnd, gap>>

\* the value returned in the try block.  threw is a history field: the ledger
\* call of this healthCheck that threw, or "none".
HealthyReport(address) ==
  [threw |-> "none", outcome |-> "returned", status |-> "healthy", address |-> address,
   pending |-> Len(uploadQueue), archived |-> Len(archivedItems)]

HealthCatchRethrows(call) ==
  [threw |-> call, outcome |-> "rejected", status |-> "none", address |-> FALSE,
   pending |-> 0, archived |-> 0]

\* the catch block: logs and returns {status: 'unhealthy', error, lastCheck}
HealthCatch(call) ==
  [threw |-> call, outcome |-> "returned", status |-> "unhealthy", address |-> FALSE,
   pending |-> 0, archived |-> 0]

\* the promise of healthCheck settles with `result`
HealthSettles(result) ==
  health' = [pc |-> "idle", results |-> Append(health.results, result)]

\* healthCheck() is called: runs up to await this.arweave.network.getInfo()
HealthCheckCalled ==
  /\ health.pc = "idle"
  /\ Len(health.results) < MaxHealthChecks
  /\ health' = [health EXCEPT !.pc = "info"]
  /\ UNCHANGED <<serviceVars, storeVars, signalVars>>

\* getInfo() returns; without a wallet the report is built at once
HealthInfoReturns ==
  /\ health.pc = "info"
  /\ IF wallet
       THEN health' = [health EXCEPT !.pc = "address"]
       ELSE HealthSettles(HealthyReport(FALSE))
  /\ UNCHANGED <<serviceVars, storeVars, signalVars>>

\* wallets.jwkToAddress(this.wallet) returns
HealthAddressReturns ==
  /\ health.pc = "address"
  /\ health' = [health EXCEPT !.pc = "balance"]
  /\ UNCHANGED <<serviceVars, storeVars, signalVars>>

\* wallets.getBalance(address) returns; the report is built
HealthBalanceReturns ==
  /\ health.pc = "balance"
  /\ HealthSettles(HealthyReport(TRUE))
  /\ UNCHANGED <<serviceVars, storeVars, signalVars>>

\* the awaited ledger call of healthCheck throws
HealthCallThrows ==
  /\ health.pc \in {"info", "address", "balance"}
  /\ HealthSettles(HealthCatch(health.pc))
  /\ UNCHANGED <<serviceVars, storeVars, signalVars>>

HealthEnqueue == Len(accepted) < HealthCalls /\ Enqueue

HealthNext ==
  \/ HealthCheckCalled
  \/ HealthInfoReturns
  \/ HealthAddressReturns
  \/ HealthBalanceReturns
  \/ HealthCallThrows
  \/ HealthEnqueue
  \/ IntervalFire
  \/ RetryFire
  \/ LedgerFails
  \/ CreateDone
  \/ SignDone
  \/ PostDone
  \/ StatusDone
  \/ SleepFire
  \/ WalletGenerated
  \/ WalletGenerateThrows
  \/ Tick

\* the service while its health is checked
HealthSpec == Init /\ [][HealthNext]_vars

\* C20: every healthCheck call that has settled returned a report (it did not
\* reject): status 'unhealthy' when a ledger call of it threw, 'healthy'
\* otherwise.
C20_HealthCheckAlwaysReports ==
  \A i \in 1..Len(health.results) :
    LET r == health.results[i] IN
    /\ r.outcome = "returned"
    /\ r.threw # "none" => r.status = "unhealthy"
    /\ r.threw = "none" => r.status = "healthy"

\* getBalance threw after getInfo and jwkToAddress had returned
C20_Witness ==
  \E i \in 1..Len(health.results) :
    health.results[i].threw = "balance" /\ health.results[i].outcome = "returned"

\* ---- order of service ---------------------------------------------------------

\* queuedAt is set once, when queueForArchival builds the item, so the items'
\* queuedAt values are ordered as their oids are.
\* C21: whenever the drain loop takes an item off the queue, no item that is
\* pending at that moment has an older queuedAt than the one taken.
C21_OldestFirst ==
  [][Len(uploadQueue') < Len(uploadQueue)
       => \A i \in 1..Len(uploadQueue) : Head(uploadQueue).oid <= uploadQueue[i].oid]_vars

\* a step in which the setInterval callback ran: only it re-arms the countdown
IntervalTicked == interval' > interval

\* C22: a periodic tick that finds the backlog non-empty and no drain run
\* active starts a drain run, which takes up the item at the front; and a
\* non-empty backlog with no drain run active is always followed by a drain run.
C22_TickStartsDrain ==
  /\ [][IntervalTicked /\ ~isProcessing /\ Len(uploadQueue) > 0
          => /\ isProcessing'
             /\ Len(loops') = 1
             /\ uploadQueue' = Tail(uploadQueue)
             /\ \E it \in LiveItems' \cup {dropped'[i].item : i \in 1..Len(dropped')} :
                  /\ it.oid = Head(uploadQueue).oid
                  /\ it.starts = Head(uploadQueue).starts + 1]_vars
  /\ (~isProcessing /\ Len(uploadQueue) > 0) ~> isProcessing

\* the only item was re-queued by its retry timer after the loop had ended and
\* the tick has just taken it up for its second attempt
C22_Witness ==
  /\ Len(accepted) = 1
  /\ interval = Countdown(IntervalDelay)
  /\ \E i \in InFlight : loops[i].item.starts = 2 /\ loops[i].pc = "create"

\* ---- submission without a wallet ----------------------------------------------

\* the ledger accepted a transaction of the attempt that `item` last made
AcceptedInLastAttempt(item) == \E t \in ledger : t.tx = TransactionId(item)

C24_AcceptedStaysArchived ==
  \A t \in ledger :
    \/ \E i \in InFlight : loops[i].pc = "status" /\ loops[i].item.transactionId = t.tx
    \/ \E i \in 1..Len(done) : done[i].transactionId = t.tx

\* ---- getQueueStats --------------------------------------------------------------

\* data.data.length of the call for chunk c of stream s: in the model the
\* payload of a chunk, and so its length, is fixed by the chunk
DataLength(streamId, chunkIndex) == (IF streamId = "s1" THEN 1 ELSE 3) + chunkIndex

\* item.data.length of a queue item
ItemDataLength(item) == DataLength(item.metadata.streamId, item.metadata.chunkIndex)

\* metadata.size, set from data.data.length when the item was built
MetadataSize(metadata) == DataLength(metadata.streamId, metadata.chunkIndex)

\* for (const item of this.uploadQueue) totalPendingSize += item.data.length
RECURSIVE TotalPendingSize(_)
TotalPendingSize(q) ==
  IF Len(q) = 0 THEN 0 ELSE ItemDataLength(Head(q)) + TotalPendingSize(Tail(q))

\* for (const [id, item] of this.archivedItems.entries())
\*   totalArchivedSize += item.metadata.size
RECURSIVE TotalArchivedSize(_)
TotalArchivedSize(m) ==
  IF Len(m) = 0 THEN 0 ELSE MetadataSize(Head(m).value.metadata) + TotalArchivedSize(Tail(m))

GetQueueStatsCountsForSize ==
  [pending |-> [count |-> Len(uploadQueue), size |-> Len(uploadQueue)],
   archived |-> [count |-> Len(archivedItems), size |-> Len(archivedItems)],
   isProcessing |-> isProcessing]

\* getQueueStats()
GetQueueStats ==
  [pending |-> [count |-> Len(uploadQueue), size |-> TotalPendingSize(uploadQueue)],
   archived |-> [count |-> Len(archivedItems), size |-> TotalArchivedSize(archivedItems)],
   isProcessing |-> isProcessing]

RECURSIVE SumOf(_, _)
SumOf(f, S) ==
  IF S = {} THEN 0
  ELSE LET x == CHOOSE y \in S : TRUE IN f[x] + SumOf(f, S \ {x})

\* C25: getQueueStats reports the number of queued items and the sum of their
\* payload lengths, the number of archived records and the sum of their
\* metadata sizes, and isProcessing true exactly while a drain run is active.
C25_QueueStats ==
  LET r == GetQueueStats
      queued(m) == Cardinality({i \in 1..Len(uploadQueue) : uploadQueue[i].metadata = m})
      archived(m) == Cardinality({i \in 1..Len(archivedItems) : archivedItems[i].value.metadata = m})
  IN /\ r.pending.count = SumOf([m \in Inputs |-> queued(m)], Inputs)
     /\ r.pending.size =
          SumOf([m \in Inputs |-> queued(m) * DataLength(m.streamId, m.chunkIndex)], Inputs)
     /\ r.archived.count = SumOf([m \in Inputs |-> archived(m)], Inputs)
     /\ r.archived.size =
          SumOf([m \in Inputs |-> archived(m) * DataLength(m.streamId, m.chunkIndex)], Inputs)
     /\ r.isProcessing <=> Len(loops) > 0

\* one record is archived, another item is queued and the drain run is active
C25_Witness ==
  /\ GetQueueStats.pending.size >= 2
  /\ GetQueueStats.archived.size >= 3
  /\ GetQueueStats.isProcessing

\* ---- the content store ----------------------------------------------------------
\* MockIPFSService (src/unnamed/part_004) and pin/unpin of IPFSService
\* (src/unnamed/part_005).  No method of MockIPFSService awaits anything but
\* its own already settled promises, so each call is one action.

MaxNow == 2            \* the clock runs from 0 to MaxNow
MaxStoreCalls == 3     \* content store calls made by the environment
MaxAge == 2            \* cleanupOldChunks is called with 0..MaxAge

\* the payloads: byte sequences of length 1 and 2
Bytes == {<<1>>, <<1, 2>>}

MapHas(m, key) == \E i \in 1..Len(m) : m[i].key = key

MapGet(m, key) == m[CHOOSE i \in 1..Len(m) : m[i].key = key].value

MapDelete(m, key) == SelectSeq(m, LAMBDA e : e.key # key)

MapKeys(m) == {m[i].key : i \in 1..Len(m)}

\* sha256 over the data followed by Date.now().toString(), cut to 44 hex
\* digits: taken to be free of collisions, so the hash stands for the pair
GenerateMockHash(data, t) == <<data, t>>

\* an address under which nothing was ever stored
UnknownHash == GenerateMockHash(<<>>, 0)

\* Buffer.from(`Mock data for hash ${hash} (not found)`): bytes that no payload
\* of the model equals
NotFoundText(hash) == <<0>>

\* the value of the i-th clock read of a call during which the clock steps to
\* the next value just before read number `cross` (0: it does not step)
ClockAt(i, cross) == IF cross > 0 /\ i >= cross THEN now + 1 ELSE now

\* the record stored by storeDataLocally; pinned is absent (falsy) at first
Blob(data, storedAt) ==
  [data |-> data, size |-> Len(data), storedAt |-> storedAt, pinned |-> FALSE]

\* storeDataLocally up to this.mockStorage.set(...)
StoreDataLocally(storage, data, hashedAt, storedAt) ==
  MapSet(storage, GenerateMockHash(data, hashedAt), Blob(data, storedAt))

\* the stored metadata of a stream, or the one created for a new stream
StreamMetadata(streams, streamId) ==
  IF MapHas(streams, streamId)
    THEN MapGet(streams, streamId)
    ELSE [chunks |-> <<>>, totalSize |-> 0, chunkCount |-> 0]

\* updateStreamChunks without the findIndex and without the sort: the chunk is
\* always pushed
UpdateStreamChunksPushOnly(streams, streamId, chunkData) ==
  LET old == StreamMetadata(streams, streamId)
      chunks == Append(old.chunks, chunkData)
  IN MapSet(streams, streamId,
            [chunks |-> chunks, totalSize |-> old.totalSize + chunkData.size,
             chunkCount |-> Len(chunks)])

\* updateStreamChunks that replaces an existing chunk but keeps its old size
\* in totalSize
UpdateStreamChunksAddsSize(streams, streamId, chunkData) ==
  LET old == StreamMetadata(streams, streamId)
      kept == SelectSeq(old.chunks, LAMBDA c : c.chunkIndex # chunkData.chunkIndex)
      sorted == SortByChunkIndex(Append(kept, chunkData))
  IN MapSet(streams, streamId,
            [chunks |-> sorted, totalSize |-> old.totalSize + chunkData.size,
             chunkCount |-> Len(sorted)])

\* updateStreamChunks(streamId, chunkData) on the Map `streams`
UpdateStreamChunks(streams, streamId, chunkData) ==
  LET old == StreamMetadata(streams, streamId)
      existing == {i \in 1..Len(old.chunks) : old.chunks[i].chunkIndex = chunkData.chunkIndex}
      existingChunkIndex ==
        IF existing = {} THEN 0 ELSE CHOOSE i \in existing : \A j \in existing : i <= j
      chunks == IF existingChunkIndex > 0
                  THEN [old.chunks EXCEPT ![existingChunkIndex] = chunkData]
                  ELSE Append(old.chunks, chunkData)
      totalSize == IF existingChunkIndex > 0
                     THEN old.totalSize - old.chunks[existingChunkIndex].size + chunkData.size
                     ELSE old.totalSize + chunkData.size
      sorted == SortByChunkIndex(chunks)
  IN MapSet(streams, streamId,
            [chunks |-> sorted, totalSize |-> totalSize, chunkCount |-> Len(sorted)])

\* one more call of the content store
StoreCall ==
  /\ storeCalls < MaxStoreCalls
  /\ storeCalls' = storeCalls + 1

\* uploadChunk(buffer, {streamId, chunkIndex, ...}).  The clock is read four
\* times: generateMockHash in uploadChunk, generateMockHash in
\* storeDataLocally, storedAt, uploadedAt.  `written` tells whether
\* fs.writeFileSync returned; when it throws the call rejects after the blob
\* was put into mockStorage.
UploadChunkSteps(data, streamId, chunkIndex, cross, written) ==
  LET mockHash == GenerateMockHash(data, ClockAt(1, cross))
      chunkData == [ipfsHash |-> mockHash, streamId |-> streamId, chunkIndex |-> chunkIndex,
                    size |-> Len(data), uploadedAt |-> ClockAt(4, cross)]
  IN /\ StoreCall
     /\ cross > 0 => now < MaxNow
     /\ mockStorage' = StoreDataLocally(mockStorage, data, ClockAt(2, cross), ClockAt(3, cross))
     /\ IF written
          THEN /\ chunkStore' = MapSet(chunkStore, ItemId(streamId, chunkIndex), chunkData)
               /\ streamStore' = UpdateStreamChunks(streamStore, streamId, chunkData)
               /\ now' = ClockAt(4, cross)
               /\ puts' = Append(puts, [data |-> data, hash |-> mockHash])
               /\ last' = [op |-> "uploadChunk", hash |-> mockHash, outcome |-> "returned"]
          ELSE /\ UNCHANGED <<chunkStore, streamStore, puts>>
               /\ now' = ClockAt(3, cross)
               /\ last' = [op |-> "uploadChunk", hash |-> mockHash, outcome |-> "rejected"]
     /\ UNCHANGED ipfsConnected

UploadChunk(data, streamId, chunkIndex, cross, written) ==
  /\ UploadChunkSteps(data, streamId, chunkIndex, cross, written)
  /\ UNCHANGED <<serviceVars, health, signalVars>>

\* uploadJSON(data): storeDataLocally(buffer, 'metadata.json'), with the clock
\* read for the hash and for storedAt
UploadJSON(data, cross, written) ==
  LET mockHash == GenerateMockHash(data, ClockAt(1, cross)) IN
  /\ StoreCall
  /\ cross > 0 => now < MaxNow
  /\ mockStorage' = StoreDataLocally(mockStorage, data, ClockAt(1, cross), ClockAt(2, cross))
  /\ now' = ClockAt(2, cross)
  /\ IF written
       THEN /\ puts' = Append(puts, [data |-> data, hash |-> mockHash])
            /\ last' = [op |-> "uploadJSON", hash |-> mockHash, outcome |-> "returned"]
       ELSE /\ puts' = puts
            /\ last' = [op |-> "uploadJSON", hash |-> mockHash, outcome |-> "rejected"]
  /\ UNCHANGED <<chunkStore, streamStore, ipfsConnected, serviceVars, health, signalVars>>

\* the addresses a caller may present: every one ever handed out or stored
\* under, and one that is unknown
Hashes == MapKeys(mockStorage) \cup {puts[i].hash : i \in 1..Len(puts)} \cup {UnknownHash}

\* the Buffer that retrieveData(hash) returns
RetrievedBytes(storage, hash) ==
  IF MapHas(storage, hash) THEN MapGet(storage, hash).data ELSE NotFoundText(hash)

\* retrieveData(hash); known is a history field: the address held a blob
RetrieveData(hash) ==
  /\ StoreCall
  /\ last' = [op |-> "retrieveData", hash |-> hash, known |-> MapHas(mockStorage, hash),
              outcome |-> "returned",
              result |-> RetrievedBytes(mockStorage, hash)]
  /\ UNCHANGED <<mockStorage, chunkStore, streamStore, now, ipfsConnected, puts,
                 serviceVars, health, signalVars>>

\* storedData.pinned = pinned when the hash is stored, a log line otherwise
SetPinned(storage, hash, pinned) ==
  IF MapHas(storage, hash)
    THEN MapSet(storage, hash, [MapGet(storage, hash) EXCEPT !.pinned = pinned])
    ELSE storage

\* MockIPFSService.pin(hash)
Pin(hash) ==
  /\ StoreCall
  /\ mockStorage' = SetPinned(mockStorage, hash, TRUE)
  /\ last' = [op |-> "pin", hash |-> hash, known |-> MapHas(mockStorage, hash),
              outcome |-> "returned"]
  /\ UNCHANGED <<chunkStore, streamStore, now, ipfsConnected, puts, serviceVars, health, signalVars>>

\* MockIPFSService.unpin(hash)
Unpin(hash) ==
  /\ StoreCall
  /\ mockStorage' = SetPinned(mockStorage, hash, FALSE)
  /\ last' = [op |-> "unpin", hash |-> hash, known |-> MapHas(mockStorage, hash),
              outcome |-> "returned"]
  /\ UNCHANGED <<chunkStore, streamStore, now, ipfsConnected, puts, serviceVars, health, signalVars>>

\* the chunkStore entries with new Date(chunkData.uploadedAt) < cutoffDate
OldChunks(chunks, cutoff) == SelectSeq(chunks, LAMBDA e : e.value.uploadedAt < cutoff)

\* mockStorage after the two loops of cleanupOldChunks
CleanedStorage(storage, chunks, cutoff) ==
  LET oldHashes == {e.value.ipfsHash : e \in {OldChunks(chunks, cutoff)[i] :
                                                i \in 1..Len(OldChunks(chunks, cutoff))}}
      withoutChunks == SelectSeq(storage, LAMBDA e : e.key \notin oldHashes)
  IN SelectSeq(withoutChunks, LAMBDA e : ~(e.value.storedAt < cutoff))

\* cleanupOldChunks(olderThanDays): result is the cleanedCount returned;
\* removed and kept are history fields, the blobs deleted and left by the call
CleanupOldChunks(olderThanDays) ==
  LET cutoff == now - olderThanDays
      cleaned == CleanedStorage(mockStorage, chunkStore, cutoff)
  IN /\ StoreCall
     /\ mockStorage' = cleaned
     /\ chunkStore' = SelectSeq(chunkStore, LAMBDA e : ~(e.value.uploadedAt < cutoff))
     /\ last' = [op |-> "cleanupOldChunks", cutoff |-> cutoff, outcome |-> "returned",
                 result |-> Len(OldChunks(chunkStore, cutoff)),
                 removed |-> SelectSeq(mockStorage, LAMBDA e : ~MapHas(cleaned, e.key)),
                 kept |-> cleaned]
     /\ UNCHANGED <<streamStore, now, ipfsConnected, puts, serviceVars, health, signalVars>>

\* IPFSService.pin(hash): `answers` tells whether client.pin.add(hash) returned
\* (it throws for an address the node cannot resolve); nothing was uploaded
\* through IPFSService, so every address is unknown to it
IpfsPin(hash, answers) ==
  /\ StoreCall
  /\ last' = [op |-> "IPFSService.pin", hash |-> hash, known |-> FALSE,
              outcome |-> IF ~ipfsConnected \/ answers THEN "returned" ELSE "rejected"]
  /\ UNCHANGED <<mockStorage, chunkStore, streamStore, now, ipfsConnected, puts,
                 serviceVars, health, signalVars>>

\* IPFSService.unpin(hash): a throw of client.pin.rm is caught and logged
IpfsUnpin(hash, answers) ==
  /\ StoreCall
  /\ last' = [op |-> "IPFSService.unpin", hash |-> hash, known |-> FALSE,
              outcome |-> "returned"]
  /\ UNCHANGED <<mockStorage, chunkStore, streamStore, now, ipfsConnected, puts,
                 serviceVars, health, signalVars>>

\* the clock moves on
StoreTick ==
  /\ now < MaxNow
  /\ now' = now + 1
  /\ UNCHANGED <<mockStorage, chunkStore, streamStore, ipfsConnected, storeCalls, puts, last,
                 serviceVars, health, signalVars>>

UploadChunkCall ==
  \E data \in Bytes, s \in Streams, c \in Chunks, cross \in 0..4, written \in BOOLEAN :
    UploadChunk(data, s, c, cross, written)
UploadJSONCall == \E data \in Bytes, cross \in 0..2, written \in BOOLEAN : UploadJSON(data, cross, written)
RetrieveDataCall == \E hash \in Hashes : RetrieveData(hash)
PinCall == \E hash \in Hashes : Pin(hash)
UnpinCall == \E hash \in Hashes : Unpin(hash)
CleanupCall == \E olderThanDays \in 0..MaxAge : CleanupOldChunks(olderThanDays)
IpfsPinCall == \E hash \in Hashes, answers \in BOOLEAN : IpfsPin(hash, answers)
IpfsUnpinCall == \E hash \in Hashes, answers \in BOOLEAN : IpfsUnpin(hash, answers)

StoreNext ==
  \/ UploadChunkCall
  \/ UploadJSONCall
  \/ RetrieveDataCall
  \/ PinCall
  \/ UnpinCall
  \/ CleanupCall
  \/ IpfsPinCall
  \/ IpfsUnpinCall
  \/ StoreTick

\* the content store alone, with IPFSService connected or not
StoreInit == ArchivalInit /\ SignalInit /\ \E connected \in BOOLEAN : ContentInit(connected)

StoreSpec == StoreInit /\ [][StoreNext]_vars

StoreTypeOK ==
  /\ now \in 0..MaxNow
  /\ storeCalls \in 0..MaxStoreCalls
  /\ ipfsConnected \in BOOLEAN

\* C26: two stores of identical bytes were given the same address, and the
\* store holds no two blobs with identical bytes.
C26_ContentAddressing ==
  /\ \A i, j \in 1..Len(puts) : puts[i].data = puts[j].data => puts[i].hash = puts[j].hash
  /\ \A i, j \in 1..Len(mockStorage) :
       mockStorage[i].value.data = mockStorage[j].value.data => i = j

\* C27: retrieveData of an address under which nothing is stored fails (it
\* does not return bytes).
C27_UnknownAddressNotFound ==
  last.op = "retrieveData" /\ ~last.known => last.outcome = "rejected"

\* C28: no blob removed by cleanupOldChunks was pinned.
C28_PinnedNeverRemoved ==
  last.op = "cleanupOldChunks" =>
    \A i \in 1..Len(last.removed) : ~last.removed[i].value.pinned

\* C29: cleanupOldChunks removes exactly the blobs stored before the cutoff
\* and returns the number of blobs it removed.
C29_CleanupExact ==
  last.op = "cleanupOldChunks" =>
    /\ \A i \in 1..Len(last.removed) : last.removed[i].value.storedAt < last.cutoff
    /\ \A i \in 1..Len(last.kept) : ~(last.kept[i].value.storedAt < last.cutoff)
    /\ last.result = Len(last.removed)

PinOps == {"pin", "unpin", "IPFSService.pin", "IPFSService.unpin"}

\* C30: a pin or unpin call for an address unknown to the store returns
\* normally and leaves the blobs and both indexes as they were.
C30_PinUnknownIsNoOp ==
  [][storeCalls' > storeCalls /\ last'.op \in PinOps /\ ~last'.known
       => /\ last'.outcome = "returned"
          /\ UNCHANGED <<mockStorage, chunkStore, streamStore>>]_vars

\* the same for the two methods of MockIPFSService only
PinUnknownIsNoOpInMock ==
  [][storeCalls' > storeCalls /\ last'.op \in {"pin", "unpin"} /\ ~last'.known
       => /\ last'.outcome = "returned"
          /\ UNCHANGED <<mockStorage, chunkStore, streamStore>>]_vars

\* ---- the two indexes of the content store ----------------------------------------

\* getStreamChunks(streamId): the loop over chunkStore.entries(), then the sort
GetStreamChunks(chunks, streamId) ==
  LET matches == SelectSeq(chunks, LAMBDA e : e.value.streamId = streamId) IN
  SortByChunkIndex([i \in 1..Len(matches) |-> matches[i].value])

\* the chunk list of a stream in the stream index
StreamChunks(streamId) == StreamMetadata(streamStore, streamId).chunks

UploadNext ==
  \/ UploadChunkCall
  \/ StoreTick

\* uploadChunk calls only, at any times
UploadSpec == StoreInit /\ [][UploadNext]_vars

\* C31: after uploadChunk calls only, every stream's chunk list in the stream
\* index is strictly ascending in chunkIndex (sorted, one entry per
\* chunkIndex), getStreamChunks returns its chunks in ascending order, and
\* these are exactly the chunks of the stream: the list of the stream index,
\* each the chunk of the latest returned upload of its (streamId, chunkIndex).
C31_StreamChunksSorted ==
  \A s \in Streams :
    LET list == StreamChunks(s)
        got == GetStreamChunks(chunkStore, s)
    IN /\ \A i, j \in 1..Len(list) : i < j => list[i].chunkIndex < list[j].chunkIndex
       /\ \A i, j \in 1..Len(got) : i < j => got[i].chunkIndex < got[j].chunkIndex
       /\ got = list
       /\ \A i \in 1..Len(got) :
            /\ got[i].streamId = s
            /\ got[i] = MapGet(chunkStore, ItemId(s, got[i].chunkIndex))

\* C31 witness: chunk 1 of a stream was uploaded before chunk 0 and then
\* uploaded again with other bytes; the list holds chunk 0, then the new chunk 1.
C31_Witness ==
  /\ storeCalls = 3
  /\ Len(puts) = 3
  /\ puts[1].data # puts[3].data
  /\ Len(StreamChunks("s1")) = 2
  /\ StreamChunks("s1")[1].ipfsHash = puts[2].hash
  /\ StreamChunks("s1")[1].chunkIndex = 0
  /\ StreamChunks("s1")[2].ipfsHash = puts[3].hash
  /\ StreamChunks("s1")[2].size = Len(puts[3].data)


\* ---- the race of initializeWallet with the first drain run ----------------------

\* C32: while initializeWallet is still waiting for generate(), no item is in
\* a ledger call and no item has a counted attempt; and no item was given up
\* for want of a wallet that became available later.
C32_WalletRaceHarmless ==
  /\ walletPc = "generating"
       => /\ InFlight = {}
          /\ \A it \in LiveItems : it.attempts = 0
          /\ dropped = <<>>
  /\ wallet => \A i \in 1..Len(dropped) : dropped[i].cause # "no wallet"


\* ---- the pending count -----------------------------------------------------------

\* C33: every item that is queued, in flight or waiting in a retry timer is
\* counted in getQueueStats().pending.count, and pending.count +
\* archived.count is at least the number of accepted items that were not
\* given up.
C33_PendingCountsLiveItems ==
  /\ GetQueueStats.pending.count >= Cardinality(LiveItems)
  /\ GetQueueStats.pending.count + GetQueueStats.archived.count
       >= Len(accepted) - Len(dropped)


\* ---- the round trip of the content store ------------------------------------------

\* C34: right after an uploadChunk call that returned hash h, retrieveData(h)
\* returns the bytes that were uploaded.
C34_RoundTrip ==
  last.op = "uploadChunk" /\ last.outcome = "returned"
    => RetrievedBytes(mockStorage, last.hash) = puts[Len(puts)].data


\* ---- the indexes after cleanup ------------------------------------------------------

\* the chunks that the chunk index holds for a stream
ChunkIndexOf(streamId) ==
  {chunkStore[i].value : i \in {j \in 1..Len(chunkStore) : chunkStore[j].value.streamId = streamId}}

\* C35: for every stream the chunk list of the stream index holds exactly the
\* chunks that the chunk index holds for that stream.
C35_IndexesAgree ==
  \A s \in Streams : Range(StreamChunks(s)) = ChunkIndexOf(s)


\* ---- the stream routes --------------------------------------------------------------

RouteCalls == 1        \* chunks queued through the upload route
RouteStoreCalls == 2   \* content store calls made while the routes are served

\* POST /stream/upload-chunk: IPFSService.uploadChunk, then
\* ArweaveService.queueForArchival with the same streamId and chunkIndex.  Both
\* await only promises that are already settled, so the handler is one step.
\* When uploadChunk rejects the catch answers 500 and nothing is queued.
UploadChunkRoute(data, streamId, chunkIndex, cross, written) ==
  /\ Len(accepted) < RouteCalls
  /\ storeCalls < RouteStoreCalls
  /\ UploadChunkSteps(data, streamId, chunkIndex, cross, written)
  /\ IF written
       THEN QueueForArchivalSteps(streamId, chunkIndex)
       ELSE UNCHANGED serviceVars
  /\ UNCHANGED <<health, signalVars>>

\* the status object of GET /stream/:streamId/status, numerator and
\* denominator of archivalProgress kept apart
StreamStatusRoute(streamId) ==
  LET chunks == GetStreamChunks(chunkStore, streamId)
      arweaveStatus == GetStreamStatus(archivedItems, streamId)
  IN [totalChunks |-> Len(chunks),
      archivedChunks |-> arweaveStatus.archivedCount,
      ipfsNodes |-> Len(chunks)]

PostUploadChunk ==
  \E data \in Bytes, s \in Streams, c \in Chunks, cross \in 0..4, written \in BOOLEAN :
    UploadChunkRoute(data, s, c, cross, written)

\* cleanupOldChunks called in the same process
RouteCleanup == storeCalls < RouteStoreCalls /\ CleanupCall

RouteNext ==
  \/ PostUploadChunk
  \/ RouteCleanup
  \/ StoreTick
  \/ IntervalFire
  \/ RetryFire
  \/ LedgerFails
  \/ CreateDone
  \/ SignDone
  \/ PostDone
  \/ StatusDone
  \/ SleepFire
  \/ WalletGenerated
  \/ WalletGenerateThrows
  \/ Tick

\* chunks arrive through the upload route, the drain loop archives them and
\* cleanupOldChunks is called from time to time
RouteSpec == Init /\ [][RouteNext]_vars

\* C36: for every stream the archived count of getStreamStatus is at most the
\* number of chunks of getStreamChunks, so that archivedChunks / totalChunks
\* is at most 1.
C36_ProgressWithinBounds ==
  \A s \in Streams :
    StreamStatusRoute(s).archivedChunks <= StreamStatusRoute(s).totalChunks


\* ---- the signalling server ------------------------------------------------------------
\* io.on('connection') of src/server.js.  Every handler is synchronous.  The
\* handlers of 'signal' and 'content-available' only emit and change neither
\* map.

\* a client connects: socket `s` gets its handlers
Connection(s) ==
  /\ sockets[s] = "none"
  /\ sockets' = [sockets EXCEPT ![s] = "connected"]
  /\ UNCHANGED <<rooms, peers, serviceVars, health, storeVars>>

\* rooms after: if (!rooms.has(roomId)) rooms.set(roomId, new Set());
\* rooms.get(roomId).add(peerId)
RoomsAfterJoin(m, roomId, peerId) ==
  MapSet(m, roomId, (IF MapHas(m, roomId) THEN MapGet(m, roomId) ELSE {}) \cup {peerId})

\* socket.on('join-room', (roomId, peerId) => ...)
JoinRoom(s, roomId, peerId) ==
  /\ sockets[s] = "connected"
  /\ rooms' = RoomsAfterJoin(rooms, roomId, peerId)
  /\ peers' = MapSet(peers, s, [roomId |-> roomId, peerId |-> peerId])
  /\ UNCHANGED <<sockets, serviceVars, health, storeVars>>

\* rooms after the disconnect of the socket registered as `peer`:
\* room.delete(peer.peerId); if (room.size === 0) rooms.delete(peer.roomId)
RoomsAfterLeave(m, peer) ==
  IF ~MapHas(m, peer.roomId) THEN m
  ELSE LET room == MapGet(m, peer.roomId) \ {peer.peerId} IN
       IF room = {} THEN MapDelete(m, peer.roomId) ELSE MapSet(m, peer.roomId, room)

\* socket.on('disconnect', () => ...)
Disconnect(s) ==
  /\ sockets[s] = "connected"
  /\ sockets' = [sockets EXCEPT ![s] = "closed"]
  /\ IF MapHas(peers, s)
       THEN /\ rooms' = RoomsAfterLeave(rooms, MapGet(peers, s))
            /\ peers' = MapDelete(peers, s)
       ELSE UNCHANGED <<rooms, peers>>
  /\ UNCHANGED <<serviceVars, health, storeVars>>

Connect == \E s \in SocketIds : Connection(s)
Join == \E s \in SocketIds, r \in RoomIds, p \in PeerIds : JoinRoom(s, r, p)
Leave == \E s \in SocketIds : Disconnect(s)

SignalNext ==
  \/ Connect
  \/ Join
  \/ Leave

SignalSpec == Init /\ [][SignalNext]_vars

\* the sockets that are connected and registered with (roomId, peerId)
Registered(roomId, peerId) ==
  {s \in SocketIds : /\ sockets[s] = "connected"
                     /\ MapHas(peers, s)
                     /\ MapGet(peers, s) = [roomId |-> roomId, peerId |-> peerId]}

\* C37: a peerId is a member of room r exactly when a connected socket is
\* registered with (r, peerId), and the rooms map holds no empty room.
C37_RoomsConsistent ==
  /\ \A r \in RoomIds, p \in PeerIds :
       (MapHas(rooms, r) /\ p \in MapGet(rooms, r)) <=> Registered(r, p) # {}
  /\ \A i \in 1..Len(rooms) : rooms[i].value # {}


\* ---- the sizes kept in the stream index ------------------------------------------------

RECURSIVE SumOfSizes(_)
SumOfSizes(chunks) ==
  IF Len(chunks) = 0 THEN 0 ELSE Head(chunks).size + SumOfSizes(Tail(chunks))

\* C38: for every stream of the stream index totalSize is the sum of the
\* sizes of the chunks in its list and chunkCount is the length of the list.
C38_StreamTotals ==
  \A i \in 1..Len(streamStore) :
    LET meta == streamStore[i].value IN
    /\ meta.totalSize = SumOfSizes(meta.chunks)
    /\ meta.chunkCount = Len(meta.chunks)

\* C38 witness: three uploads went to one stream, to two chunk indexes, so
\* that the first chunk was replaced by a later one of another length; the
\* total is the sum of the two later sizes
C38_Witness ==
  /\ Len(puts) = 3
  /\ Len(puts[1].data) # Len(puts[2].data)
  /\ Len(puts[1].data) # Len(puts[3].data)
  /\ MapKeys(streamStore) = {"s2"}
  /\ Len(StreamChunks("s2")) = 2
  /\ StreamChunks("s2")[1].ipfsHash = puts[3].hash
  /\ StreamChunks("s2")[2].ipfsHash = puts[2].hash
  /\ MapGet(streamStore, "s2").totalSize = Len(puts[2].data) + Len(puts[3].data)

\* ---- the health check of the content store ----------------------------------------------

\* Buffer.from('zipIQ mock health check', 'utf8'): bytes that no payload of
\* the model equals
HealthTestData == <<9, 9, 9>>

\* MockIPFSService.healthCheck(): storeDataLocally(testData,
\* 'health-check.txt'), retrieveData of the hash it returned, the comparison,
\* and the report.  The clock is read for the hash, for storedAt and for
\* lastCheck.  When fs.writeFileSync throws, the blob is already in
\* mockStorage and the catch returns the unhealthy report.
MockHealthCheck(cross, written) ==
  LET testHash == GenerateMockHash(HealthTestData, ClockAt(1, cross))
      stored == StoreDataLocally(mockStorage, HealthTestData, ClockAt(1, cross), ClockAt(2, cross))
      isValid == RetrievedBytes(stored, testHash) = HealthTestData
  IN /\ StoreCall
     /\ cross > 0 => now < MaxNow
     /\ mockStorage' = stored
     /\ now' = ClockAt(3, cross)
     /\ last' = [op |-> "healthCheck", hash |-> testHash, outcome |-> "returned",
                 status |-> IF ~written THEN "unhealthy"
                            ELSE IF isValid THEN "healthy" ELSE "degraded"]
     /\ UNCHANGED <<chunkStore, streamStore, ipfsConnected, puts, serviceVars, health, signalVars>>

MockHealthCheckCall == \E cross \in 0..3, written \in BOOLEAN : MockHealthCheck(cross, written)

StoreHealthNext ==
  \/ MockHealthCheckCall
  \/ UploadChunkCall
  \/ RetrieveDataCall
  \/ PinCall
  \/ CleanupCall
  \/ StoreTick

\* the content store with a monitor that calls healthCheck
StoreHealthSpec == StoreInit /\ [][StoreHealthNext]_vars

\* C39: a healthCheck call leaves the stored blobs and both indexes as they
\* were.
C39_HealthCheckReadOnly ==
  [][storeCalls' > storeCalls /\ last'.op = "healthCheck"
       => UNCHANGED <<mockStorage, chunkStore, streamStore>>]_vars

\* the part of it that concerns the two indexes
HealthCheckLeavesIndexes ==
  [][storeCalls' > storeCalls /\ last'.op = "healthCheck"
       => UNCHANGED <<chunkStore, streamStore>>]_vars


====
